---- MODULE Spec2Model ----
(***************************************************************************)
(* A model of scrape_pdms.py: the cascading-dropdown sweep of run(), the   *)
(* control binding that precedes it, the result-table parser, the          *)
(* pagination walker and the final deduplicated save.                      *)
(*                                                                         *)
(* The driver (run) is one sequential process; pc is its position.  The    *)
(* host page (the site behind the browser) is the environment: its answers *)
(* to the driver's calls are chosen nondeterministically inside the        *)
(* driver's steps.                                                         *)
(*                                                                         *)
(* Spec is the sweep on a host that answers a region change at once,       *)
(* SpecAsync the sweep on a host that answers it some time later, SpecFair *)
(* the sweep under a fair scheduler.  SpecClassify is the binding of the   *)
(* three dropdowns.  SpecBind, SpecParse, SpecFrame and SpecTables run     *)
(* make_signature and query, extract_rows_from_table, find_target_frame    *)
(* and locate_result_table on inputs of their own.                         *)
(***************************************************************************)
EXTENDS Integers, Sequences, FiniteSets, TLC

(***************************************************************************)
(* Bounds of the model.                                                    *)
(***************************************************************************)
\* number of entries of the seed list REGIONS kept by the model
NumSeeds == 2
\* the largest number of result pages the host serves for one search
MaxHostPages == 4
\* the largest number of option labels the host withdraws during one run
MaxGone == 1
\* the polls a wait sleeps through before its deadline (10 s / 0.2 s in
\* the program)
MaxPolls == 2
\* the largest number of comboboxes of a context
MaxDom == 3
\* the largest number of times the host replaces the nodes of a form
MaxChurn == 1
\* the largest number of rows of a table body, of cells of a row
MaxRows == 2
MaxCells == 6
\* the largest number of frames of the page, of comboboxes of a context
MaxFrames == 2
MaxCombos == 2
\* the largest number of tables of a short context, and of tables at the
\* end of a long one
MaxTables == 2

(***************************************************************************)
(* Program constants.                                                      *)
(***************************************************************************)
\* REGIONS, cut to its first NumSeeds (at most 4) entries
AllSeeds == <<"Seoul", "Gyeonggi", "Incheon", "Gangwon">>
REGIONS == SubSeq(AllSeeds, 1, NumSeeds)

MAX_PAGES_PER_COMBO == 3

\* the placeholder option label the driver filters out (x != "선택")
PLACEHOLDER == "Select"

\* the three logical dropdowns of the form
Ctl == {"region", "branch", "type"}
\* the two selects the host fills after a change of the region
Dependent == {"branch", "type"}

(***************************************************************************)
(* Texts.  A raw DOM text is its trimmed core plus whether the DOM pads it *)
(* with surrounding whitespace; str.strip() / String.trim() keep the core. *)
(***************************************************************************)
Raw(core, pad) == [core |-> core, pad |-> pad]

Strip(t) == t.core

Range(s) == {s[i] : i \in 1..Len(s)}

RECURSIVE SelectSeq2(_, _)
\* [x for x in s if Keep(x)] for the two list comprehensions below
SelectSeq2(s, drop) ==
    IF s = <<>> THEN <<>>
    ELSE IF Head(s) \in drop THEN SelectSeq2(Tail(s), drop)
         ELSE <<Head(s)>> \o SelectSeq2(Tail(s), drop)

RECURSIVE list_options_text(_)
\* the stripped, non-empty option texts of a select, in DOM order
list_options_text(options) ==
    IF options = <<>> THEN <<>>
    ELSE LET t == Strip(Head(options))
         IN  IF t # "" THEN <<t>> \o list_options_text(Tail(options))
             ELSE list_options_text(Tail(options))

\* [x for x in list_options_text(cb) if x != "선택"]
LiveLabels(options) == SelectSeq2(list_options_text(options), {PLACEHOLDER})

\* the wait content with any option at all, the placeholder included
OptionsLoaded_any(options, min_count) == Len(options) >= 1

\* wait_options_loaded returns once the select holds min_count options;
\* otherwise the poll runs into its timeout and raises TimeoutError
OptionsLoaded(options, min_count) == Len(options) >= min_count

\* select_option(label=...) and, when the host rejects it, the scripted
\* fallback options.find(o => o.text.trim() === label): TRUE when one of
\* the two selects the option, FALSE when both raise
NativeSelects(options, label, nativeOk) ==
    nativeOk /\ \E i \in 1..Len(options) : Strip(options[i]) = label

FallbackSelects(options, label) ==
    \E i \in 1..Len(options) : Strip(options[i]) = label

select_by_label_with_fallback(options, label, nativeOk) ==
    IF NativeSelects(options, label, nativeOk) THEN TRUE
    ELSE FallbackSelects(options, label)

(***************************************************************************)
(* Result tables.  A table is its thead text, kept as the set of domain    *)
(* keywords it contains, and its tbody rows; a row is the sequence of the  *)
(* raw texts of its td cells.                                              *)
(***************************************************************************)
KEYWORDS == {"company", "apply", "type", "address", "item"}

MAX_TABLES_SCANNED == 20

Min(a, b) == IF a < b THEN a ELSE b

\* sum(1 for kw in [...] if kw in head_text)
HeadScore(table) == Cardinality(KEYWORDS \cap table.head)

RECURSIVE LocateFrom_lastBest(_, _, _, _)
\* the comparison written with >=: the last of the best tables wins
LocateFrom_lastBest(tables, i, best, best_score) ==
    IF i > Min(MAX_TABLES_SCANNED, Len(tables)) THEN best
    ELSE IF HeadScore(tables[i]) >= best_score
         THEN LocateFrom_lastBest(tables, i + 1, i, HeadScore(tables[i]))
         ELSE LocateFrom_lastBest(tables, i + 1, best, best_score)

RECURSIVE LocateFrom(_, _, _, _)
\* the for loop of locate_result_table from index i on: best is the index
\* of the best table so far (0 for None), best_score its score
LocateFrom(tables, i, best, best_score) ==
    IF i > Min(MAX_TABLES_SCANNED, Len(tables)) THEN best
    ELSE IF HeadScore(tables[i]) > best_score
         THEN LocateFrom(tables, i + 1, i, HeadScore(tables[i]))
         ELSE LocateFrom(tables, i + 1, best, best_score)

\* the index of the table locate_result_table returns; 0 when the context
\* holds no table (tables.first then matches nothing and has no rows)
locate_result_table(tables) == LocateFrom(tables, 1, 0, -1)

\* the guard off by one: the last cell of every row read as missing
Safe_dropsLast(tds, idx) ==
    IF idx + 1 < Len(tds) THEN Strip(tds[idx + 1]) ELSE ""

\* safe(idx): the stripped text of cell idx (0-based), "" past the last cell
Safe(tds, idx) == IF idx < Len(tds) THEN Strip(tds[idx + 1]) ELSE ""

RowDict(tds) ==
    [NO |-> Safe(tds, 0), name |-> Safe(tds, 1), atype |-> Safe(tds, 2),
     addr |-> Safe(tds, 3), item |-> Safe(tds, 4)]

RECURSIVE extract_rows_from_table(_)
\* one dict per tbody row that has at least one td, in row order
extract_rows_from_table(trs) ==
    IF trs = <<>> THEN <<>>
    ELSE IF Len(Head(trs)) = 0 THEN extract_rows_from_table(Tail(trs))
         ELSE <<RowDict(Head(trs))>> \o extract_rows_from_table(Tail(trs))

\* the rows of the table the locator picks in the context
ParsePage(tables) ==
    LET k == locate_result_table(tables)
    IN  IF k = 0 THEN <<>> ELSE extract_rows_from_table(tables[k].body)

\* r.update({"지역": region, "지사": branch, "참여유형명": typ}) for r in rows
TagRows(rows, region, branch, typ) ==
    [i \in 1..Len(rows) |->
        [NO |-> rows[i].NO, name |-> rows[i].name, atype |-> rows[i].atype,
         addr |-> rows[i].addr, item |-> rows[i].item,
         region |-> region, branch |-> branch, typ |-> typ]]

RECURSIVE DropFrom(_, _)
DropFrom(rows, seen) ==
    IF rows = <<>> THEN <<>>
    ELSE IF Head(rows) \in seen THEN DropFrom(Tail(rows), seen)
         ELSE <<Head(rows)>> \o DropFrom(Tail(rows), seen \cup {Head(rows)})

\* the save without the deduplication
drop_duplicates_none(rows) == rows

\* DataFrame(all_rows).drop_duplicates(): the first occurrence of every
\* row, all columns compared, order kept
drop_duplicates(rows) == DropFrom(rows, {})

\* the loop test written with <=
MorePagesAllowed_offByOne(count) == count <= MAX_PAGES_PER_COMBO

\* while page_count < MAX_PAGES_PER_COMBO
MorePagesAllowed(count) == count < MAX_PAGES_PER_COMBO

(***************************************************************************)
(* The host page.                                                          *)
(***************************************************************************)
\* a region label the site offers that the seed list does not hold
FOREIGN_REGION == "Jeju"

\* the region option lists a site may offer at startup
SiteRegionLists ==
    {REGIONS, Tail(REGIONS), <<REGIONS[1], FOREIGN_REGION>>, <<>>}

\* the sub-region and category labels the host holds for a region
HostBranches(r) == IF r = REGIONS[1] THEN <<"b1", "b2">> ELSE <<"b3">>

HostTypes(r) == IF r = REGIONS[1] THEN <<"t1", "t2">> ELSE <<"t2">>

\* labels the host may withdraw while the sweep runs
Withdrawable == Range(REGIONS) \cup {"b1", "b2", "b3", "t1", "t2"}

\* the option nodes of a select: the placeholder, then one option per
\* label, every second one rendered with surrounding whitespace
Render(labels) ==
    <<Raw(PLACEHOLDER, FALSE)>> \o
    [i \in 1..Len(labels) |-> Raw(labels[i], i % 2 = 0)]

\* a dependent select whose options did not arrive: the placeholder alone
Unloaded == <<Raw(PLACEHOLDER, FALSE)>>

\* what the form shows once the host has answered a change of the region
\* to r with the labels in g withdrawn; fail names the dependent select
\* whose options never arrive ("none": both arrive)
HostAnswer(site, r, g, fail) ==
    [region |-> Render(SelectSeq2(site, g)),
     branch |-> IF fail = "branch" THEN Unloaded
                ELSE Render(SelectSeq2(HostBranches(r), g)),
     type   |-> IF fail = "type" THEN Unloaded
                ELSE Render(SelectSeq2(HostTypes(r), g))]

PageNo == <<"1", "2", "3", "4", "5", "6", "7", "8">>

Row5(no) ==
    <<Raw(no, TRUE), Raw("Acme", FALSE), Raw("work", FALSE),
      Raw("Main St", TRUE), Raw("welding", FALSE)>>

\* the tbody the host serves for result page p
HostBody(style, p) ==
    CASE style = "distinct" -> <<Row5(PageNo[p])>>
      [] style = "same"     -> <<Row5("1")>>
      [] OTHER              ->
           IF p % 2 = 0 THEN <<>>
           ELSE <<Row5(PageNo[p]), <<>>,
                  <<Raw(PageNo[p], FALSE), Raw("Short", TRUE)>>,
                  Row5(PageNo[p])>>

Styles == {"distinct", "same", "mixed"}

\* the tables of the context on a result page: a layout table without
\* thead, the result table, and a table whose header names one keyword
HostTables(style, p) ==
    << [head |-> {}, body |-> <<<<Raw("menu", FALSE)>>>>],
       [head |-> {"company", "apply", "address"}, body |-> HostBody(style, p)],
       [head |-> {"item"}, body |-> <<<<Raw("legend", FALSE)>>>>] >>

\* nxt.count() > 0 and nxt.first.is_enabled() on page cur of n pages
NextEnabled(cur, n) == cur < n

(***************************************************************************)
(* Control binding, run() lines 190-208.  The form is the sequence of its  *)
(* select elements in DOM order, each given by its accessible name ("" for *)
(* none); a handle is a position in that sequence.                         *)
(***************************************************************************)
\* the largest number of selects of a form layout
MaxSelects == 4

\* the accessible names 지역, 지사, 참여유형명 and 참여유형
ACC_REGION == "jiyeok"
ACC_BRANCH == "jisa"
ACC_TYPENAME == "chamyeoyuhyeongmyeong"
ACC_TYPE == "chamyeoyuhyeong"

AccNames == {"", ACC_REGION, ACC_BRANCH, ACC_TYPENAME, ACC_TYPE}

Layouts == UNION {[1..n -> AccNames] : n \in 2..MaxSelects}

\* get_by_role(..., name=q) matches an accessible name that contains q
NameContains(acc, q) == acc = q \/ (q = ACC_TYPE /\ acc = ACC_TYPENAME)

\* the positions ctx.get_by_role("combobox", name=q) matches
ByRoleName(form, q) == {i \in 1..Len(form) : NameContains(form[i], q)}

\* locator.first: the match that comes first in the document
First(S) == CHOOSE i \in S : \A j \in S : i <= j

\* ctx.locator("select").nth(k), k counted from 0; a position past the
\* last select is a locator that matches no element
NthSelect(form, k) == k + 1

\* by role and name when that matches, else the select at the position
ComboFor(form, q, k) ==
    IF ByRoleName(form, q) # {} THEN First(ByRoleName(form, q))
    ELSE NthSelect(form, k)

\* get_type_combo: 참여유형명, then 참여유형, then the third select
get_type_combo(form) ==
    IF ByRoleName(form, ACC_TYPENAME) # {}
    THEN First(ByRoleName(form, ACC_TYPENAME))
    ELSE ComboFor(form, ACC_TYPE, 2)

\* make_signature reads the element's attributes, which raises when the
\* locator matches nothing
Bindable(form, cb) == cb <= Len(form)

\* a form whose three dropdowns carry their labels, in the usual order
LabelledForm == <<ACC_REGION, ACC_BRANCH, ACC_TYPENAME>>

(***************************************************************************)
(* The state of run() and of the host page.                                *)
(***************************************************************************)
VARIABLES
    pc,              \* the driver's position in run() / __main__
    err,             \* the exception that left run(), "" while none did
    errLine,         \* the line of run() it was raised under, 0 while none
    ri, bi, ti,      \* positions of the three for loops (1-based)
    regions_on_site, \* the live region labels read at startup
    branch_opts,     \* the sub-region labels read for the current region
    type_opts,       \* the category labels read for the current region
    all_rows,        \* the record store
    page_count,      \* pages walked for the current combination
    written,         \* pdms_learning_companies.csv has been written
    output,          \* the rows written to it
    reported,        \* __main__ printed the error
    site,            \* host: the region labels the site offers
    opts,            \* host: the option nodes of each select
    sel,             \* host: the selected label of each select
    gone,            \* host: the labels withdrawn so far
    numPages,        \* host: result pages served for a search
    style,           \* host: what the result pages hold
    curPage,         \* host: the result page shown
    query,           \* host: the combination of the last search
    inflight,        \* host: requests sent and not yet answered
    selCalls,        \* history: (control, label) of every selection call
    submitted,       \* history: the combinations searched, in order
    prov,            \* history: per record, the host query it was read under
    parsed,          \* history: pages parsed for the current combination
    elapsed,         \* wait_options_loaded: the polls slept in this wait
    pending,         \* host: the region whose lists are still to arrive
    asyncHost,       \* host: dependent lists arrive after the change event
    handleAge,       \* history: what happened since each handle was resolved
    uses,            \* history: the ages of the handles interacted with
    lastWait,        \* history: options seen by the last wait, 0 once spent
    unwaited,        \* history: a dependent control was used with no wait
    nextClicks,      \* history: "next" activations for this combination
    layout,          \* host: the selects of the form, by accessible name
    cpc,             \* the driver's position in the binding, lines 190-208
    region_cb, branch_cb, type_cb, \* the three handles (0: not yet bound)
    dom,             \* host: the comboboxes of a context, in document order
    churns,          \* host: times the nodes of dom were replaced
    sig,             \* a SelectSignature
    target,          \* the place in dom sig was made for (0: for none)
    qres,            \* what sig.query returned
    bpc,             \* position in make_signature / query
    trs,             \* the tbody rows handed to extract_rows_from_table
    extracted,       \* what extract_rows_from_table returned
    ppc,             \* position in extract_rows_from_table
    mainCount,       \* comboboxes of the main document (-1: the query raises)
    frames,          \* the same for each frame of page.frames, in order
    ctx_form,        \* what find_target_frame returned
    fpc,             \* position in find_target_frame
    tables,          \* the tables of the result page, in document order
    best,            \* what locate_result_table returned
    tpc              \* position in locate_result_table

vars ==
    <<pc, err, errLine, ri, bi, ti, regions_on_site, branch_opts, type_opts, all_rows,
      page_count, written, output, reported, site, opts, sel, gone, numPages,
      style, curPage, query, inflight, selCalls, submitted, prov, parsed,
      elapsed, pending, asyncHost, handleAge, uses, lastWait, unwaited,
      nextClicks, layout, cpc, region_cb, branch_cb, type_cb, dom, churns,
      sig, target, qres, bpc, trs, extracted, ppc, mainCount, frames, ctx_form,
      fpc, tables, best, tpc>>

driverVars == <<ri, bi, ti, regions_on_site, branch_opts, type_opts,
                all_rows, page_count>>
hostForm == <<opts, sel, gone, pending>>
hostResult == <<curPage, query, inflight>>
log == <<selCalls, submitted, prov, parsed>>
handles == <<handleAge, uses>>
waits == <<lastWait, unwaited>>
history == <<log, handles, waits, nextClicks>>
binding == <<layout, cpc, region_cb, branch_cb, type_cb>>
bindVars == <<dom, churns, sig, target, qres, bpc>>
parseVars == <<trs, extracted, ppc>>
frameVars == <<mainCount, frames, ctx_form, fpc>>
tableVars == <<tables, best, tpc>>
\* the functions exercised on their own, apart from the sweep
apart == <<bindVars, parseVars, frameVars, tableVars>>
fixed == <<site, numPages, style, asyncHost, binding, apart>>
saved == <<written, output, reported>>

NOQUERY == <<"", "", "">>

\* run() before its first step on a loaded page
Unstarted ==
    /\ err = "" /\ errLine = 0
    /\ ri = 1 /\ bi = 1 /\ ti = 1
    /\ regions_on_site = <<>> /\ branch_opts = <<>> /\ type_opts = <<>>
    /\ all_rows = <<>> /\ page_count = 0
    /\ written = FALSE /\ output = <<>> /\ reported = FALSE
    /\ opts = [region |-> Render(site), branch |-> Unloaded, type |-> Unloaded]
    /\ sel = [c \in Ctl |-> PLACEHOLDER]
    /\ gone = {}
    /\ curPage = 0 /\ query = NOQUERY /\ inflight = 0
    /\ selCalls = {} /\ submitted = <<>> /\ prov = <<>> /\ parsed = 0
    /\ elapsed = 0 /\ pending = ""
    /\ handleAge = [c \in Ctl |-> "fresh"] /\ uses = {}
    /\ lastWait = [c \in Dependent |-> 0] /\ unwaited = FALSE
    /\ nextClicks = 0

NoSig == [css_by_id |-> "", css_by_name |-> "", index |-> 0]
NoRes == [via |-> "", pos |-> 0]

BindOff ==
    /\ dom = <<>> /\ churns = 0 /\ sig = NoSig /\ target = 0
    /\ qres = NoRes /\ bpc = "off"
ParseOff == trs = <<>> /\ extracted = <<>> /\ ppc = "off"
NoCtx == [ctx |-> 0, exc |-> FALSE]
FrameOff == mainCount = 0 /\ frames = <<>> /\ ctx_form = NoCtx /\ fpc = "off"
TablesOff == tables = <<>> /\ best = 0 /\ tpc = "off"
ApartOff == BindOff /\ ParseOff /\ FrameOff /\ TablesOff

\* the sweep on a form whose three fingerprints are bound to its three
\* dropdowns: the page as loaded, the region select filled, the dependent
\* selects holding their placeholder only
Init ==
    /\ pc = "start"
    /\ site \in SiteRegionLists
    /\ numPages \in 1..MaxHostPages
    /\ style \in Styles
    /\ asyncHost = FALSE
    /\ Unstarted
    /\ ApartOff
    /\ layout = LabelledForm
    /\ cpc = "bound"
    /\ region_cb = ComboFor(layout, ACC_REGION, 0)
    /\ branch_cb = ComboFor(layout, ACC_BRANCH, 1)
    /\ type_cb = get_type_combo(layout)

region == REGIONS[ri]
branch == branch_opts[bi]
typ == type_opts[ti]

\* an exception leaves run(): nothing after the raise runs
Raise(e, line) ==
    /\ pc' = "raised" /\ err' = e /\ errLine' = line
    /\ UNCHANGED <<elapsed, driverVars, hostForm, hostResult, fixed, saved>>

\* the skip test dropped: every seed region is swept
SkipRegion_never(r, onsite) == FALSE

\* if region not in regions_on_site: continue
SkipRegion(r, onsite) == r \notin Range(onsite)

\* the first (branch, type) positions of the nested for loops over nb
\* sub-regions and nt categories; a position past nb ends the loops
FirstCombo(nb, nt) == IF nt = 0 THEN <<nb + 1, 1>> ELSE <<1, 1>>

\* the positions after combination (b, t): the category loop is the inner
AdvanceCombo(b, t, nb, nt) == IF t < nt THEN <<b, t + 1>> ELSE <<b + 1, 1>>

\* the wait for network quiescence left out
AfterIdle_skipped(n) == n

\* page.wait_for_load_state("networkidle"): returns with no request pending
AfterIdle(n) == 0

\* the host's answer to a change of the region select to r: it may
\* withdraw one more label, and either dependent list may fail to arrive
HostReacts(r) ==
    IF asyncHost
    THEN /\ sel' = [sel EXCEPT !.region = r]
         /\ pending' = r
         /\ UNCHANGED <<opts, gone>>
    ELSE \E g \in {gone} \cup {gone \cup {l} : l \in Withdrawable},
            fail \in {"none", "branch", "type"} :
             /\ Cardinality(g) <= MaxGone
             /\ gone' = g
             /\ opts' = HostAnswer(site, r, g, fail)
             /\ sel' = [region |-> r, branch |-> PLACEHOLDER,
                        type |-> PLACEHOLDER]
             /\ pending' = ""

(***************************************************************************)
(* wait_options_loaded, lines 38-51: the poll loop of the five waits.      *)
(***************************************************************************)
WaitPcs == {"start", "enum_branch", "enum_type", "c_wait_branch", "c_wait_type"}

\* the control a wait of run() is on
WaitedOn(at) ==
    CASE at = "start" -> "region"
      [] at \in {"enum_branch", "c_wait_branch"} -> "branch"
      [] at \in {"enum_type", "c_wait_type"} -> "type"

\* the deadline test dropped from the loop
TimedOut_never(n) == FALSE

\* if (time.time() - start) * 1000 > timeout_ms: raise TimeoutError
TimedOut(n) == n >= MaxPolls

\* cnt < min_count and the deadline not reached: time.sleep(0.2)
Poll ==
    /\ pc \in WaitPcs
    /\ ~OptionsLoaded(opts[WaitedOn(pc)], 2)
    /\ ~TimedOut(elapsed)
    /\ elapsed' = IF elapsed < MaxPolls THEN elapsed + 1 ELSE elapsed
    /\ UNCHANGED <<pc, err, errLine, driverVars, hostForm, hostResult, fixed,
                   saved, history>>

(***************************************************************************)
(* The handles: a handle is fresh when resolved, has seen a selection      *)
(* ("sel") or a search or page transition ("page") since.                  *)
(***************************************************************************)
\* the three query calls left out
Rebind_omitted(age) == age

\* lines 221-224 and 243-246: find_target_frame, then sig.query three times
Rebind(age) == [c \in Ctl |-> "fresh"]

\* a select_option went through: the host may rebuild the form
AfterSelection(age) ==
    [c \in Ctl |-> IF age[c] = "fresh" THEN "sel" ELSE age[c]]

\* a search or a "next" was clicked: the page is replaced
AfterTransition(age) == [c \in Ctl |-> "page"]

NoWait == [c \in Dependent |-> 0]

(***************************************************************************)
(* run(), lines 210-218: read the live regions, then the region loop.      *)
(***************************************************************************)
StartOk ==
    /\ pc = "start"
    /\ OptionsLoaded(opts.region, 2)
    /\ regions_on_site' = LiveLabels(opts.region)
    /\ ri' = 1
    /\ elapsed' = 0
    /\ uses' = uses \cup {handleAge.region}
    /\ pc' = "region"
    /\ UNCHANGED <<err, errLine, bi, ti, branch_opts, type_opts, all_rows,
                   page_count, hostForm, hostResult, fixed, saved, log,
                   handleAge, waits, nextClicks>>

StartTimeout ==
    /\ pc = "start"
    /\ ~OptionsLoaded(opts.region, 2)
    /\ TimedOut(elapsed)
    /\ Raise("TimeoutError", 211)
    /\ uses' = uses \cup {handleAge.region}
    /\ UNCHANGED <<log, handleAge, waits, nextClicks>>

RegionsDone ==
    /\ pc = "region"
    /\ ri > Len(REGIONS)
    /\ pc' = "save"
    /\ UNCHANGED <<err, errLine, elapsed, driverVars, hostForm, hostResult,
                   fixed, saved, history>>

RegionSkip ==
    /\ pc = "region"
    /\ ri <= Len(REGIONS)
    /\ SkipRegion(region, regions_on_site)
    /\ ri' = ri + 1
    /\ UNCHANGED <<pc, err, errLine, elapsed, bi, ti, regions_on_site,
                   branch_opts, type_opts, all_rows, page_count, hostForm,
                   hostResult, fixed, saved, history>>

RegionEnter ==
    /\ pc = "region"
    /\ ri <= Len(REGIONS)
    /\ ~SkipRegion(region, regions_on_site)
    /\ pc' = "sel_region"
    /\ UNCHANGED <<err, errLine, elapsed, driverVars, hostForm, hostResult,
                   fixed, saved, history>>

(***************************************************************************)
(* Lines 220-238: select the region, read its dependent option lists.      *)
(***************************************************************************)
SelectRegion(at, next, line) ==
    /\ pc = at
    /\ selCalls' = selCalls \cup {<<"region", region>>}
    /\ uses' = uses \cup {Rebind(handleAge).region}
    /\ UNCHANGED <<submitted, prov, parsed, unwaited, nextClicks>>
    /\ \E nativeOk \in BOOLEAN :
         IF select_by_label_with_fallback(opts.region, region, nativeOk)
         THEN /\ HostReacts(region)
              /\ handleAge' = AfterSelection(Rebind(handleAge))
              /\ lastWait' = NoWait
              /\ pc' = next
              /\ UNCHANGED <<err, errLine, elapsed, driverVars, hostResult,
                             fixed, saved>>
         ELSE /\ Raise("SelectError", line)
              /\ handleAge' = Rebind(handleAge)
              /\ UNCHANGED lastWait

EnumRegion == SelectRegion("sel_region", "enum_branch", 227)

EnumBranch ==
    /\ pc = "enum_branch"
    /\ uses' = uses \cup {handleAge.branch}
    /\ UNCHANGED <<log, handleAge, nextClicks>>
    /\ IF OptionsLoaded(opts.branch, 2)
       THEN /\ branch_opts' = LiveLabels(opts.branch)
            /\ elapsed' = 0
            /\ unwaited' = (unwaited \/ Len(opts.branch) < 2)
            /\ lastWait' = [lastWait EXCEPT !.branch = 0]
            /\ pc' = "enum_type"
            /\ UNCHANGED <<err, errLine, ri, bi, ti, regions_on_site,
                           type_opts, all_rows, page_count, hostForm,
                           hostResult, fixed, saved>>
       ELSE /\ TimedOut(elapsed)
            /\ Raise("TimeoutError", 231)
            /\ UNCHANGED waits

EnumType ==
    /\ pc = "enum_type"
    /\ uses' = uses \cup {handleAge.type}
    /\ UNCHANGED <<log, handleAge, nextClicks>>
    /\ IF OptionsLoaded(opts.type, 2)
       THEN /\ type_opts' = LiveLabels(opts.type)
            /\ bi' = FirstCombo(Len(branch_opts), Len(type_opts'))[1]
            /\ ti' = FirstCombo(Len(branch_opts), Len(type_opts'))[2]
            /\ elapsed' = 0
            /\ unwaited' = (unwaited \/ Len(opts.type) < 2)
            /\ lastWait' = [lastWait EXCEPT !.type = 0]
            /\ pc' = "combo"
            /\ UNCHANGED <<err, errLine, ri, regions_on_site, branch_opts,
                           all_rows, page_count, hostForm, hostResult, fixed,
                           saved>>
       ELSE /\ TimedOut(elapsed)
            /\ Raise("TimeoutError", 234)
            /\ UNCHANGED waits

(***************************************************************************)
(* Lines 240-261: one combination, its three selections.                   *)
(***************************************************************************)
ComboNext ==
    /\ pc = "combo"
    /\ IF bi > Len(branch_opts)
       THEN /\ ri' = ri + 1
            /\ pc' = "region"
       ELSE /\ ri' = ri
            /\ pc' = "c_sel_region"
    /\ UNCHANGED <<err, errLine, elapsed, bi, ti, regions_on_site,
                   branch_opts, type_opts, all_rows, page_count, hostForm,
                   hostResult, fixed, saved, history>>

ComboRegion == SelectRegion("c_sel_region", "c_wait_branch", 249)

ComboWait(at, c, next, line) ==
    /\ pc = at
    /\ uses' = uses \cup {handleAge[c]}
    /\ UNCHANGED <<log, handleAge, unwaited, nextClicks>>
    /\ IF OptionsLoaded(opts[c], 2)
       THEN /\ lastWait' = [lastWait EXCEPT ![c] = Len(opts[c])]
            /\ elapsed' = 0
            /\ pc' = next
            /\ UNCHANGED <<err, errLine, driverVars, hostForm, hostResult,
                           fixed, saved>>
       ELSE /\ TimedOut(elapsed)
            /\ Raise("TimeoutError", line)
            /\ UNCHANGED lastWait

ComboWaitBranch == ComboWait("c_wait_branch", "branch", "c_sel_branch", 253)

ComboBranch ==
    /\ pc = "c_sel_branch"
    /\ selCalls' = selCalls \cup {<<"branch", branch>>}
    /\ uses' = uses \cup {handleAge.branch}
    /\ unwaited' = (unwaited \/ lastWait.branch < 2)
    /\ lastWait' = NoWait
    /\ UNCHANGED <<submitted, prov, parsed, nextClicks>>
    /\ \E nativeOk \in BOOLEAN :
         IF select_by_label_with_fallback(opts.branch, branch, nativeOk)
         THEN /\ sel' = [sel EXCEPT !.branch = branch]
              /\ handleAge' = AfterSelection(handleAge)
              /\ pc' = "c_wait_type"
              /\ UNCHANGED <<err, errLine, elapsed, driverVars, opts, gone,
                             pending, hostResult, fixed, saved>>
         ELSE /\ Raise("SelectError", 254)
              /\ UNCHANGED handleAge

ComboWaitType == ComboWait("c_wait_type", "type", "c_sel_type", 257)

\* the handler swallowing the failure without leaving the combination
TypeRejected_ignored(options, label, nativeOk) == FALSE

\* try: select ... except Exception: continue
TypeRejected(options, label, nativeOk) ==
    ~select_by_label_with_fallback(options, label, nativeOk)

ComboType ==
    /\ pc = "c_sel_type"
    /\ selCalls' = selCalls \cup {<<"type", typ>>}
    /\ uses' = uses \cup {handleAge.type}
    /\ unwaited' = (unwaited \/ lastWait.type < 2)
    /\ lastWait' = [lastWait EXCEPT !.type = 0]
    /\ UNCHANGED <<submitted, prov, parsed, nextClicks>>
    /\ \E nativeOk \in BOOLEAN :
         IF TypeRejected(opts.type, typ, nativeOk)
         THEN /\ bi' = AdvanceCombo(bi, ti, Len(branch_opts), Len(type_opts))[1]
              /\ ti' = AdvanceCombo(bi, ti, Len(branch_opts), Len(type_opts))[2]
              /\ pc' = "combo"
              /\ UNCHANGED <<err, errLine, elapsed, ri, regions_on_site,
                             branch_opts, type_opts, all_rows, page_count,
                             hostForm, hostResult, fixed, saved, handleAge>>
         ELSE /\ sel' = [sel EXCEPT !.type = typ]
              /\ handleAge' = AfterSelection(handleAge)
              /\ pc' = "search"
              /\ UNCHANGED <<err, errLine, elapsed, driverVars, opts, gone,
                             pending, hostResult, fixed, saved>>

(***************************************************************************)
(* Lines 263-285: search, parse the first page, walk the next pages.       *)
(***************************************************************************)
\* click_search_or_query: the host may have dropped its submit control
Search ==
    /\ pc = "search"
    /\ UNCHANGED <<selCalls, prov, uses, waits>>
    /\ \E hasButton \in BOOLEAN :
         IF hasButton
         THEN /\ query' = <<sel.region, sel.branch, sel.type>>
              /\ curPage' = 1
              /\ inflight' = inflight + 1
              /\ submitted' = Append(submitted, <<sel.region, sel.branch, sel.type>>)
              /\ parsed' = 0
              /\ nextClicks' = 0
              /\ handleAge' = AfterTransition(handleAge)
              /\ pc' = "idle1"
              /\ UNCHANGED <<err, errLine, elapsed, driverVars, hostForm,
                             fixed, saved>>
         ELSE /\ Raise("RuntimeError", 264)
              /\ UNCHANGED <<submitted, parsed, nextClicks, handleAge>>

Idle(at, next) ==
    /\ pc = at
    /\ inflight' = AfterIdle(inflight)
    /\ pc' = next
    /\ UNCHANGED <<err, errLine, elapsed, driverVars, hostForm, curPage,
                   query, fixed, saved, history>>

SearchIdle == Idle("idle1", "parse1")

\* the sub-region and category keys filled with each other's label
TagOf_keysSwapped(r, b, t) == <<r, t, b>>

\* the (region, branch, typ) the rows of the page being parsed are tagged with
TagOf(r, b, t) == <<r, b, t>>

Collect(at, count) ==
    /\ pc = at
    /\ LET rows == ParsePage(HostTables(style, curPage))
           tag == TagOf(region, branch, typ)
       IN  /\ all_rows' = all_rows \o TagRows(rows, tag[1], tag[2], tag[3])
           /\ prov' = prov \o [i \in 1..Len(rows) |-> query]
    /\ page_count' = count
    /\ parsed' = parsed + 1
    /\ pc' = "pages"
    /\ UNCHANGED <<err, errLine, elapsed, ri, bi, ti, regions_on_site,
                   branch_opts, type_opts, hostForm, hostResult, fixed, saved,
                   selCalls, submitted, handles, waits, nextClicks>>

ParseFirst == Collect("parse1", 1)

\* while page_count < MAX_PAGES_PER_COMBO: if not click_next_if_possible: break
Pages ==
    /\ pc = "pages"
    /\ IF MorePagesAllowed(page_count) /\ NextEnabled(curPage, numPages)
       THEN /\ curPage' = curPage + 1
            /\ inflight' = inflight + 1
            /\ nextClicks' = nextClicks + 1
            /\ handleAge' = AfterTransition(handleAge)
            /\ pc' = "idle2"
            /\ UNCHANGED <<bi, ti>>
       ELSE /\ bi' = AdvanceCombo(bi, ti, Len(branch_opts), Len(type_opts))[1]
            /\ ti' = AdvanceCombo(bi, ti, Len(branch_opts), Len(type_opts))[2]
            /\ pc' = "combo"
            /\ UNCHANGED <<curPage, inflight, nextClicks, handleAge>>
    /\ UNCHANGED <<err, errLine, elapsed, ri, regions_on_site, branch_opts,
                   type_opts, all_rows, page_count, hostForm, query, fixed,
                   saved, log, uses, waits>>

PageIdle == Idle("idle2", "parseN")

ParseNext == Collect("parseN", page_count + 1)

(***************************************************************************)
(* Lines 287-291: the save; lines 294-299: __main__.                       *)
(***************************************************************************)
Save ==
    /\ pc = "save"
    /\ output' = drop_duplicates(all_rows)
    /\ written' = TRUE
    /\ pc' = "done"
    /\ UNCHANGED <<err, errLine, elapsed, driverVars, hostForm, hostResult,
                   fixed, reported, history>>

\* except Exception as e: print("ERROR:", e); raise
Report ==
    /\ pc = "raised"
    /\ reported' = TRUE
    /\ pc' = "failed"
    /\ UNCHANGED <<err, errLine, elapsed, driverVars, hostForm, hostResult,
                   fixed, written, output, history>>

Next ==
    \/ Poll
    \/ StartOk \/ StartTimeout
    \/ RegionsDone \/ RegionSkip \/ RegionEnter
    \/ EnumRegion \/ EnumBranch \/ EnumType
    \/ ComboNext \/ ComboRegion \/ ComboWaitBranch \/ ComboBranch
    \/ ComboWaitType \/ ComboType
    \/ Search \/ SearchIdle \/ ParseFirst \/ Pages \/ PageIdle \/ ParseNext
    \/ Save \/ Report

Spec == Init /\ [][Next]_vars

(***************************************************************************)
(* The host filling the dependent selects some time after the change       *)
(* event, while run() goes on.                                             *)
(***************************************************************************)
InitAsync ==
    /\ pc = "start"
    /\ site \in SiteRegionLists
    /\ numPages \in 1..2
    /\ style = "distinct"
    /\ asyncHost = TRUE
    /\ Unstarted
    /\ ApartOff
    /\ layout = LabelledForm
    /\ cpc = "bound"
    /\ region_cb = ComboFor(layout, ACC_REGION, 0)
    /\ branch_cb = ComboFor(layout, ACC_BRANCH, 1)
    /\ type_cb = get_type_combo(layout)

\* the lists of the region last chosen arrive and replace the option nodes
HostPopulate ==
    /\ pending # ""
    /\ opts' = HostAnswer(site, pending, gone, "none")
    /\ sel' = [sel EXCEPT !.branch = PLACEHOLDER, !.type = PLACEHOLDER]
    /\ pending' = ""
    /\ UNCHANGED <<pc, err, errLine, elapsed, driverVars, gone, hostResult,
                   fixed, saved, history>>

NextAsync == Next \/ HostPopulate

SpecAsync == InitAsync /\ [][NextAsync]_vars

(***************************************************************************)
(* The sweep under a scheduler that keeps run() going.                     *)
(***************************************************************************)
\* the hosts of Init that serve one result page or as many as they can;
\* what the rows hold plays no part in how long run() goes on
InitFair ==
    /\ pc = "start"
    /\ site \in SiteRegionLists
    /\ numPages \in {1, MaxHostPages}
    /\ style = "distinct"
    /\ asyncHost = FALSE
    /\ Unstarted
    /\ ApartOff
    /\ layout = LabelledForm
    /\ cpc = "bound"
    /\ region_cb = ComboFor(layout, ACC_REGION, 0)
    /\ branch_cb = ComboFor(layout, ACC_BRANCH, 1)
    /\ type_cb = get_type_combo(layout)

\* run() is one thread that is never suspended for good: whenever it has a
\* step to take it takes one
SpecFair == InitFair /\ [][Next]_vars /\ WF_vars(Next)

(***************************************************************************)
(* The binding alone, over every form layout.                              *)
(***************************************************************************)
sweepVars ==
    <<pc, err, errLine, elapsed, driverVars, saved, site, numPages, style,
      asyncHost, hostForm, hostResult, history, apart>>

InitClassify ==
    /\ pc = "binding"
    /\ site = REGIONS /\ numPages = 1 /\ style = "distinct"
    /\ asyncHost = FALSE
    /\ Unstarted
    /\ ApartOff
    /\ layout \in Layouts
    /\ cpc = "classify"
    /\ region_cb = 0 /\ branch_cb = 0 /\ type_cb = 0

\* lines 199-203
Classify ==
    /\ cpc = "classify"
    /\ region_cb' = ComboFor(layout, ACC_REGION, 0)
    /\ branch_cb' = ComboFor(layout, ACC_BRANCH, 1)
    /\ type_cb' = get_type_combo(layout)
    /\ cpc' = "classified"
    /\ UNCHANGED <<layout, sweepVars>>

\* lines 206-208: the three make_signature calls
BindOk ==
    /\ cpc = "classified"
    /\ \A cb \in {region_cb, branch_cb, type_cb} : Bindable(layout, cb)
    /\ cpc' = "bound"
    /\ UNCHANGED <<layout, region_cb, branch_cb, type_cb, sweepVars>>

BindFail ==
    /\ cpc = "classified"
    /\ \E cb \in {region_cb, branch_cb, type_cb} : ~Bindable(layout, cb)
    /\ cpc' = "failed"
    /\ UNCHANGED <<layout, region_cb, branch_cb, type_cb, sweepVars>>

NextClassify == Classify \/ BindOk \/ BindFail

SpecClassify == InitClassify /\ [][NextClassify]_vars

(***************************************************************************)
(* make_signature and SelectSignature.query, lines 124-174, on one         *)
(* context.  An element of dom is a combobox of the context: a native      *)
(* select with its id and name attributes ("" when it has none), or a      *)
(* scripted widget with the combobox role and an accessible name.          *)
(***************************************************************************)
SEL_ID == "sido"
SEL_NAME == "sidoNm"

ElemKinds ==
    {[tag |-> "select", id |-> i, name |-> n, acc |-> ""] :
        i \in {"", SEL_ID}, n \in {"", SEL_NAME}}
    \cup {[tag |-> "widget", id |-> "", name |-> "", acc |-> a] :
        a \in {"", ACC_REGION}}

Doms == UNION {[1..n -> ElemKinds] : n \in 0..MaxDom}

Sigs == [css_by_id : {"", SEL_ID}, css_by_name : {"", SEL_NAME},
         index : 0..(MaxDom - 1)]

\* the k-th (from 0) of a set of places, in document order: locator.nth(k)
Nth(S, k) == CHOOSE p \in S : Cardinality({q \in S : q < p}) = k

\* ctx.locator("select")
Selects(d) == {p \in DOMAIN d : d[p].tag = "select"}

\* ctx.get_by_role("combobox"): the selects and the widgets
Comboboxes(d) == DOMAIN d

\* selects.nth(i).evaluate("e => e === this", arg=el.element_handle()):
\* the page function compares the candidate with its own `this`, which an
\* arrow function takes from the evaluation scope; arg is never looked at
SameNode(e, el) == FALSE

\* for i in range(selects.count()): if <same node>: index = i; break
RECURSIVE IndexFrom(_, _, _)
IndexFrom(cands, i, el) ==
    IF i >= Cardinality(cands) THEN 0
    ELSE IF SameNode(Nth(cands, i), el) THEN i
    ELSE IndexFrom(cands, i + 1, el)

\* the candidates of the loop are the selects under the parent of el, or
\* those of the context after an exception; none passes the test either way
make_signature(d, el) ==
    [css_by_id |-> d[el].id, css_by_name |-> d[el].name,
     index |-> IndexFrom(Selects(d), 0, el)]

\* ctx.locator(self.css_by_id), ctx.locator(self.css_by_name)
ById(d, s) == {p \in Selects(d) : s.css_by_id # "" /\ d[p].id = s.css_by_id}
ByName(d, s) ==
    {p \in Selects(d) : s.css_by_name # "" /\ d[p].name = s.css_by_name}

\* the name selector tried before the id selector
sig_query_nameFirst(d, s) ==
    IF ByName(d, s) # {} THEN [via |-> "name", pos |-> Nth(ByName(d, s), 0)]
    ELSE IF ById(d, s) # {} THEN [via |-> "id", pos |-> Nth(ById(d, s), 0)]
    ELSE IF Cardinality(Selects(d)) > s.index
    THEN [via |-> "select", pos |-> Nth(Selects(d), s.index)]
    ELSE IF Cardinality(Comboboxes(d)) > s.index
    THEN [via |-> "combobox", pos |-> Nth(Comboboxes(d), s.index)]
    ELSE [via |-> "RuntimeError", pos |-> 0]

\* SelectSignature.query: the place in d it returns and the step that
\* found it; pos 0 with via "RuntimeError" is the raise of line 146
sig_query(d, s) ==
    IF ById(d, s) # {} THEN [via |-> "id", pos |-> Nth(ById(d, s), 0)]
    ELSE IF ByName(d, s) # {} THEN [via |-> "name", pos |-> Nth(ByName(d, s), 0)]
    ELSE IF Cardinality(Selects(d)) > s.index
    THEN [via |-> "select", pos |-> Nth(Selects(d), s.index)]
    ELSE IF Cardinality(Comboboxes(d)) > s.index
    THEN [via |-> "combobox", pos |-> Nth(Comboboxes(d), s.index)]
    ELSE [via |-> "RuntimeError", pos |-> 0]

sweepAll ==
    <<pc, err, errLine, elapsed, driverVars, saved, site, numPages, style,
      asyncHost, hostForm, hostResult, history, binding>>

\* run() and its binding not started
SweepOff ==
    /\ pc = "off"
    /\ site = REGIONS /\ numPages = 1 /\ style = "distinct"
    /\ asyncHost = FALSE
    /\ Unstarted
    /\ layout = LabelledForm /\ cpc = "off"
    /\ region_cb = 0 /\ branch_cb = 0 /\ type_cb = 0

InitBind ==
    /\ SweepOff /\ ParseOff /\ FrameOff /\ TablesOff
    /\ dom \in Doms
    /\ churns = 0 /\ sig = NoSig /\ target = 0 /\ qres = NoRes
    /\ bpc = "ready"

\* lines 206-208: the fingerprint of a control of the context
MakeSig ==
    /\ bpc = "ready"
    /\ \E el \in Comboboxes(dom) :
         /\ sig' = make_signature(dom, el)
         /\ target' = el
    /\ bpc' = "bound"
    /\ UNCHANGED <<dom, churns, qres, sweepAll, parseVars, frameVars, tableVars>>

\* a fingerprint taken of the form as it was before the host rebuilt it
ForeignSig ==
    /\ bpc = "ready"
    /\ sig' \in Sigs
    /\ target' = 0
    /\ bpc' = "bound"
    /\ UNCHANGED <<dom, churns, qres, sweepAll, parseVars, frameVars, tableVars>>

\* the host replaces every node by a new one with the same tag, id, name
\* and place
Churn ==
    /\ bpc \in {"bound", "resolved"}
    /\ churns < MaxChurn
    /\ churns' = churns + 1
    /\ bpc' = "bound"
    /\ UNCHANGED <<dom, sig, target, qres, sweepAll, parseVars, frameVars,
                   tableVars>>

\* lines 222-224, 244-246: sig.query(ctx)
Requery ==
    /\ bpc \in {"bound", "resolved"}
    /\ qres' = sig_query(dom, sig)
    /\ bpc' = "resolved"
    /\ UNCHANGED <<dom, churns, sig, target, sweepAll, parseVars, frameVars,
                   tableVars>>

NextBind == MakeSig \/ ForeignSig \/ Churn \/ Requery

SpecBind == InitBind /\ [][NextBind]_vars

(***************************************************************************)
(* extract_rows_from_table, lines 100-115, on the rows of one table.       *)
(***************************************************************************)
\* the texts of the cells of a row, by column; the second row style has
\* blank cells
CellTexts ==
    << <<"a1", "a2", "a3", "a4", "a5", "a6", "a7", "a8">>,
       <<"b1", "", "b3", "", "b5", "b6", "b7", "b8">> >>

\* a tbody row of k cells, padded with whitespace or not
RowOf(k, v, pad) == [j \in 1..k |-> Raw(CellTexts[v][j], pad)]

RowKinds == {RowOf(k, v, pad) : k \in 0..MaxCells, v \in 1..2, pad \in BOOLEAN}

Bodies == UNION {[1..n -> RowKinds] : n \in 0..MaxRows}

InitParse ==
    /\ SweepOff /\ BindOff /\ FrameOff /\ TablesOff
    /\ trs \in Bodies
    /\ extracted = <<>>
    /\ ppc = "ready"

\* rows = extract_rows_from_table(table)
Extract ==
    /\ ppc = "ready"
    /\ extracted' = extract_rows_from_table(trs)
    /\ ppc' = "done"
    /\ UNCHANGED <<trs, sweepAll, bindVars, frameVars, tableVars>>

NextParse == Extract

SpecParse == InitParse /\ [][NextParse]_vars

(***************************************************************************)
(* find_target_frame, lines 26-36.  A context is given by what             *)
(* get_by_role("combobox").count() answers in it: a count, or RAISES when  *)
(* the call fails (a frame detached or navigating).  Context 0 is the main *)
(* document, context i the i-th entry of page.frames.                      *)
(***************************************************************************)
RAISES == -1

Answers == {RAISES} \cup 0..MaxCombos

FrameLists == UNION {[1..n -> Answers] : n \in 0..MaxFrames}

\* the loop keeping the last frame that shows a combobox
RECURSIVE FrameWithCombobox_last(_, _)
FrameWithCombobox_last(frs, i) ==
    IF i > Len(frs) THEN 0
    ELSE IF FrameWithCombobox_last(frs, i + 1) # 0
    THEN FrameWithCombobox_last(frs, i + 1)
    ELSE IF frs[i] # RAISES /\ frs[i] > 0 THEN i ELSE 0

RECURSIVE FrameWithCombobox(_, _)
\* for f in page.frames: try: if f...count() > 0: return f; except: pass
FrameWithCombobox(frs, i) ==
    IF i > Len(frs) THEN 0
    ELSE IF frs[i] = RAISES THEN FrameWithCombobox(frs, i + 1)
    ELSE IF frs[i] > 0 THEN i
    ELSE FrameWithCombobox(frs, i + 1)

\* the context returned, or exc when the unguarded call of line 28 raises
find_target_frame(main, frs) ==
    IF main = RAISES THEN [ctx |-> 0, exc |-> TRUE]
    ELSE IF main > 0 THEN [ctx |-> 0, exc |-> FALSE]
    ELSE [ctx |-> FrameWithCombobox(frs, 1), exc |-> FALSE]

InitFrame ==
    /\ SweepOff /\ BindOff /\ ParseOff /\ TablesOff
    /\ mainCount \in Answers
    /\ frames \in FrameLists
    /\ ctx_form = NoCtx
    /\ fpc = "ready"

\* ctx_form = find_target_frame(page)
FindFrame ==
    /\ fpc = "ready"
    /\ ctx_form' = find_target_frame(mainCount, frames)
    /\ fpc' = "done"
    /\ UNCHANGED <<mainCount, frames, sweepAll, bindVars, parseVars, tableVars>>

NextFrame == FindFrame

SpecFrame == InitFrame /\ [][NextFrame]_vars

(***************************************************************************)
(* locate_result_table, lines 89-98, on the tables of one context: short   *)
(* lists of tables, and lists as long as the scan or longer with plain     *)
(* layout tables between their first and their last tables.                *)
(***************************************************************************)
Heads == {{}, {"company"}, {"company", "apply"}, {"item", "type"}}

TableOf(h) == [head |-> h, body |-> <<>>]

TableLists(n) == UNION {[1..k -> {TableOf(h) : h \in Heads}] : k \in 0..n}

Filler(n) == [i \in 1..n |-> TableOf({})]

LongLists ==
    {pre \o Filler(n - Len(pre) - Len(post)) \o post :
        pre \in TableLists(1), post \in TableLists(MaxTables),
        n \in MAX_TABLES_SCANNED..(MAX_TABLES_SCANNED + 2)}

InitTables ==
    /\ SweepOff /\ BindOff /\ ParseOff /\ FrameOff
    /\ tables \in TableLists(MaxTables) \cup LongLists
    /\ best = 0
    /\ tpc = "ready"

\* table = locate_result_table(ctx)
Locate ==
    /\ tpc = "ready"
    /\ best' = locate_result_table(tables)
    /\ tpc' = "done"
    /\ UNCHANGED <<tables, sweepAll, bindVars, parseVars, frameVars>>

NextTables == Locate

SpecTables == InitTables /\ [][NextTables]_vars

(***************************************************************************)
(* The claims.                                                             *)
(***************************************************************************)
TagTriple(rec) == <<rec.region, rec.branch, rec.typ>>

IndexIn(seq, x) == CHOOSE i \in 1..Len(seq) : seq[i] = x

\* the place of a combination in the nested order: the region's place in
\* the seed list, the sub-region's and the category's place among the
\* options the host lists for that region
PlaceOf(c) ==
    <<IndexIn(REGIONS, c[1]), IndexIn(HostBranches(c[1]), c[2]),
      IndexIn(HostTypes(c[1]), c[3])>>

LexLess(a, b) ==
    \/ a[1] < b[1]
    \/ a[1] = b[1] /\ a[2] < b[2]
    \/ a[1] = b[1] /\ a[2] = b[2] /\ a[3] < b[3]

NoDuplicates(rows) ==
    \A i, j \in 1..Len(rows) : rows[i] = rows[j] => i = j

\* C1: a seed region that is not among the live region labels read at
\* startup is skipped: no selection call is ever made with it on any
\* control, and no search is submitted for it.
C1_SkippedRegionUntouched ==
    \A i \in 1..Len(REGIONS) :
        REGIONS[i] \notin Range(regions_on_site) =>
            /\ \A c \in Ctl : <<c, REGIONS[i]>> \notin selCalls
            /\ \A k \in 1..Len(submitted) : submitted[k][1] # REGIONS[i]

\* a finished sweep that skipped a seed region and searched for another
C1_Witness ==
    /\ pc = "done"
    /\ submitted # <<>>
    /\ \E i \in 1..Len(REGIONS) : REGIONS[i] \notin Range(regions_on_site)

\* C2: every record of all_rows, from a first page or a later one, carries
\* the (region, sub-region, category) of the search the host was answering
\* when it was parsed, and all three labels are real ones.
C2_RecordsCarryTheirCombination ==
    /\ Len(prov) = Len(all_rows)
    /\ \A i \in 1..Len(all_rows) :
        /\ TagTriple(all_rows[i]) = prov[i]
        /\ \E k \in 1..Len(submitted) : submitted[k] = prov[i]
        /\ \A f \in 1..3 : prov[i][f] \notin {"", PLACEHOLDER}

\* records of two combinations in the store, the last from a later page
C2_Witness ==
    /\ pc = "pages"
    /\ parsed >= 2
    /\ all_rows # <<>>
    /\ TagTriple(all_rows[1]) # TagTriple(all_rows[Len(all_rows)])

\* C3 as stated: when the result has N pages with "next" enabled on pages
\* 1..N-1 only, the walker parses exactly N pages, for every N >= 1.
C3_WalksAllPages ==
    (pc = "combo" /\ parsed > 0) => parsed = numPages

\* C3 as amended: the walker parses exactly min(N, MAX_PAGES_PER_COMBO)
\* pages and then leaves the combination.
C3_WalksPagesUpToCap ==
    (pc = "combo" /\ parsed > 0) =>
        parsed = Min(numPages, MAX_PAGES_PER_COMBO)

\* a walk over a result of several pages that ended at its last page
C3_Witness ==
    /\ pc = "combo"
    /\ numPages > 1
    /\ parsed = numPages
    /\ curPage = numPages

\* C4: a timeout of wait_options_loaded on a dependent select does not end
\* the run.
C4_TimeoutRecoverable ==
    ~(err = "TimeoutError" /\ errLine \in {231, 234, 253, 257})

\* C5: when the category label of the combination can be selected neither
\* natively nor by the fallback, the step leaves the combination for the
\* next one: no exception leaves run(), no search, no record.
C5_RejectedCategorySkipped ==
    [][(pc = "c_sel_type" /\ ~FallbackSelects(opts.type, typ)) =>
         /\ pc' = "combo"
         /\ <<bi', ti'>> = AdvanceCombo(bi, ti, Len(branch_opts), Len(type_opts))
         /\ err' = ""
         /\ submitted' = submitted
         /\ all_rows' = all_rows]_vars

\* a finished sweep in which category t1 was called for and withdrawn
\* before any search with it
C5_Witness ==
    /\ pc = "done"
    /\ "t1" \in gone
    /\ <<"type", "t1">> \in selCalls
    /\ submitted # <<>>
    /\ \A k \in 1..Len(submitted) : submitted[k][3] # "t1"

\* C6: a selection rejected on the region or the sub-region select inside
\* a combination does not end the run.
C6_SelectionRejectionLocal ==
    ~(err = "SelectError" /\ errLine \in {249, 254})

\* C7: when the missing submit control ends the run after records were
\* accumulated, the file is written with them and the error is reported.
C7_PartialRecordsSaved ==
    (pc = "failed" /\ err = "RuntimeError" /\ all_rows # <<>>) =>
        /\ reported
        /\ written
        /\ Range(output) = Range(all_rows)

\* C8: the rows written hold no record twice and hold every record that
\* was accumulated.
C8_SavedRowsDeduplicated ==
    pc = "done" =>
        /\ written
        /\ NoDuplicates(output)
        /\ Range(output) = Range(all_rows)

\* a save in which records parsed twice collapsed
C8_Witness ==
    /\ pc = "done"
    /\ Len(output) >= 2
    /\ Len(output) < Len(all_rows)

\* C9: searches are submitted in the nested order region, sub-region,
\* category; a selection is made only when the walk of the previous search
\* is over; never are two requests outstanding.
C9_NestedOrderOneInFlight ==
    /\ \A i, j \in 1..Len(submitted) :
         i < j => LexLess(PlaceOf(submitted[i]), PlaceOf(submitted[j]))
    /\ inflight <= 1
    /\ pc \in {"sel_region", "c_sel_region", "c_sel_branch", "c_sel_type",
               "search"} =>
         /\ inflight = 0
         /\ submitted # <<>> =>
              /\ parsed >= 1
              /\ ~(MorePagesAllowed(parsed) /\ NextEnabled(curPage, numPages))

\* three searches over two regions, the last one walking a second page
C9_Witness ==
    /\ Len(submitted) >= 3
    /\ submitted[1][1] # submitted[Len(submitted)][1]
    /\ pc = "pages"
    /\ parsed >= 2

\* C10: when the binding completes, the three handles are three different
\* controls.
C10_HandlesDistinct ==
    cpc = "bound" =>
        /\ region_cb # branch_cb
        /\ region_cb # type_cb
        /\ branch_cb # type_cb

\* C13 as stated: every wait on, read of or selection on a control uses a
\* handle resolved after the last selection, search or page transition.
C13_EveryUseFreshlyResolved == uses \subseteq {"fresh"}

\* C13: no wait, read or selection uses a handle resolved before a search
\* or a page transition; the handles resolved at the head of a region pass
\* or of a combination serve that pass across its own selections.
C13_NoUseAcrossTransition == "page" \notin uses

\* a second combination at its category selection: the handles resolved
\* after the first search, used since across the region and sub-region
\* selections
C13_Witness ==
    /\ pc = "c_sel_type"
    /\ submitted # <<>>
    /\ handleAge.type = "sel"
    /\ "sel" \in uses

\* C14: the sub-region and the category select are read or selected on only
\* right after a wait on that control that saw two options or more, with no
\* selection on the region (or, for the category, the sub-region) between
\* the wait and the use.
C14_DependentUsedAfterWait == ~unwaited

\* both dependent selects read for the region, then selected on for a
\* combination
C14_Witness ==
    /\ pc = "search"
    /\ branch_opts # <<>> /\ type_opts # <<>>
    /\ <<"branch", branch>> \in selCalls
    /\ <<"type", typ>> \in selCalls
    /\ lastWait = NoWait

\* C18: for a searched combination at least one page and at most
\* MAX_PAGES_PER_COMBO pages are parsed, and "next" is clicked at most
\* MAX_PAGES_PER_COMBO - 1 times, also when the pager still offers "next".
C18_PagesWithinCap ==
    /\ parsed <= MAX_PAGES_PER_COMBO
    /\ nextClicks <= MAX_PAGES_PER_COMBO - 1
    /\ pc = "pages" => parsed >= 1 /\ parsed = nextClicks + 1

\* the walk stopped by the cap while the pager still offers "next"
C18_Witness ==
    /\ pc = "combo"
    /\ parsed = MAX_PAGES_PER_COMBO
    /\ nextClicks = MAX_PAGES_PER_COMBO - 1
    /\ NextEnabled(curPage, numPages)

InCombos ==
    pc \in {"combo", "c_sel_region", "c_wait_branch", "c_sel_branch",
            "c_wait_type", "c_sel_type", "search", "idle1", "parse1",
            "pages", "idle2", "parseN"}

\* C19: the sub-region and category lists read for a region hold only
\* options the host offers for that region, so that every combination
\* attempted is one the host offers, also when the host fills the dependent
\* selects some time after the change of the region.
C19_ListsBelongToRegion ==
    /\ pc = "enum_type" \/ InCombos =>
         Range(branch_opts) \subseteq Range(HostBranches(region))
    /\ InCombos => Range(type_opts) \subseteq Range(HostTypes(region))

\* C20: run() ends: it reaches the save or its exception reaches __main__.
C20_Terminates == <>(pc \in {"done", "failed"})

\* a run that ended after waits that polled and a walk over several pages
C20_Witness ==
    /\ pc = "done"
    /\ written
    /\ nextClicks >= 1
    /\ Len(submitted) >= 2

\* a form of native selects whose ids and names, where present, are unique
WellFormed(d) ==
    /\ \A p \in DOMAIN d : d[p].tag = "select"
    /\ \A p, q \in DOMAIN d :
         p # q => /\ d[p].id = "" \/ d[p].id # d[q].id
                  /\ d[p].name = "" \/ d[p].name # d[q].name

\* C11: after the host has replaced the nodes of the form by new ones with
\* the same id, name and place, query on the fingerprint make_signature
\* took of a control returns the control at that place again, whether the
\* control has an id, a name or neither.
C11_ResolutionStable ==
    bpc = "resolved" /\ target # 0 /\ churns >= 1 /\ WellFormed(dom) =>
        qres.pos = target

\* the combobox a classification by accessible name finds (0: none)
ClassifiedAs(d) ==
    IF \E p \in DOMAIN d : d[p].acc = ACC_REGION
    THEN First({p \in DOMAIN d : d[p].acc = ACC_REGION})
    ELSE 0

\* C15 as stated: when neither the id, the name nor the place among the
\* selects resolves, query returns what a classification of the comboboxes
\* by label finds, and fails only when that finds nothing.
C15_ClassifiesBeforeFailing ==
    bpc = "resolved" /\ qres.via \notin {"id", "name", "select"} =>
        qres.pos = ClassifiedAs(dom)

\* C15: query returns the first select with the id; failing that the first
\* select with the name; failing that the select at the ordinal place;
\* failing that the element at the ordinal place among the comboboxes of
\* the context; failing that it raises.
C15_OrdinalComboboxLastResort ==
    bpc = "resolved" =>
        LET IdAt(q) == /\ dom[q].tag = "select"
                       /\ sig.css_by_id # "" /\ dom[q].id = sig.css_by_id
            NameAt(q) == /\ dom[q].tag = "select"
                         /\ sig.css_by_name # ""
                         /\ dom[q].name = sig.css_by_name
            hasId == \E q \in DOMAIN dom : IdAt(q)
            hasName == \E q \in DOMAIN dom : NameAt(q)
            nSel == Cardinality(Selects(dom))
            r == qres.pos
        IN  /\ hasId =>
                 /\ qres.via = "id" /\ IdAt(r)
                 /\ \A q \in 1..(r - 1) : ~IdAt(q)
            /\ ~hasId /\ hasName =>
                 /\ qres.via = "name" /\ NameAt(r)
                 /\ \A q \in 1..(r - 1) : ~NameAt(q)
            /\ ~hasId /\ ~hasName /\ nSel > sig.index =>
                 /\ qres.via = "select" /\ dom[r].tag = "select"
                 /\ Cardinality({q \in Selects(dom) : q < r}) = sig.index
            /\ ~hasId /\ ~hasName /\ nSel <= sig.index /\ Len(dom) > sig.index =>
                 qres.via = "combobox" /\ r = sig.index + 1
            /\ ~hasId /\ ~hasName /\ Len(dom) <= sig.index =>
                 qres.via = "RuntimeError" /\ r = 0

\* the last resort taken: no select at the ordinal place, a widget there
C15_Witness ==
    /\ bpc = "resolved"
    /\ qres.via = "combobox"
    /\ dom[qres.pos].tag = "widget"
    /\ \E p \in DOMAIN dom : dom[p].acc = ACC_REGION /\ p # qres.pos

\* the f-th of the five columns of a record
Field(rec, f) ==
    CASE f = 1 -> rec.NO [] f = 2 -> rec.name [] f = 3 -> rec.atype
      [] f = 4 -> rec.addr [] f = 5 -> rec.item

\* C12: extract_rows_from_table returns one record per row that has a cell,
\* in row order; the record of a row of k cells has the trimmed texts of
\* the cells in its first k fields and "" in the fields past k; a row of no
\* cell gives no record.
C12_ShortRowsPadded ==
    ppc = "done" =>
        LET live == {i \in 1..Len(trs) : Len(trs[i]) > 0}
        IN  /\ Len(extracted) = Cardinality(live)
            /\ \A j \in 1..Len(extracted) :
                 LET tds == trs[Nth(live, j - 1)]
                 IN  \A f \in 1..5 :
                        Field(extracted[j], f) =
                            IF f <= Len(tds) THEN tds[f].core ELSE ""

\* a body with a row of no cell before a padded short row, parsed
C12_Witness ==
    /\ ppc = "done"
    /\ Len(trs) = 2
    /\ Len(trs[1]) = 0
    /\ Len(trs[2]) \in 1..4 /\ trs[2][1].pad
    /\ Len(extracted) = 1
    /\ extracted[1].item = ""

\* the comboboxes a context exposes: none when asking it fails
Exposed(n) == IF n = RAISES THEN 0 ELSE n

CountOf(c) == IF c = 0 THEN Exposed(mainCount) ELSE Exposed(frames[c])

\* C16 as stated, for a main document that answers: find_target_frame does
\* not raise and returns a context that exposes the largest number of
\* comboboxes, the main document when it is among those.
C16_LargestCountWins ==
    fpc = "done" /\ mainCount # RAISES =>
        /\ ~ctx_form.exc
        /\ \A c \in 0..Len(frames) : CountOf(ctx_form.ctx) >= CountOf(c)
        /\ CountOf(0) = CountOf(ctx_form.ctx) => ctx_form.ctx = 0

\* C16: find_target_frame returns the main document when it exposes a
\* combobox; otherwise the first frame, in the order of page.frames, that
\* answers and exposes one, and the main document when there is none.  It
\* raises only when asking the main document fails.
C16_FirstContextWithCombobox ==
    fpc = "done" =>
        LET shows == {i \in 1..Len(frames) : frames[i] # RAISES /\ frames[i] > 0}
        IN  /\ ctx_form.exc <=> mainCount = RAISES
            /\ mainCount # RAISES /\ mainCount > 0 => ctx_form.ctx = 0
            /\ mainCount = 0 /\ shows = {} => ctx_form.ctx = 0
            /\ mainCount = 0 /\ shows # {} =>
                 /\ ctx_form.ctx \in shows
                 /\ \A i \in shows : ctx_form.ctx <= i

\* a main document with one combobox chosen over a frame with more; and a
\* failing frame passed over would be the other case
C16_Witness ==
    /\ fpc = "done"
    /\ ctx_form.ctx = 0 /\ ~ctx_form.exc
    /\ mainCount = 1
    /\ \E i \in 1..Len(frames) : frames[i] > mainCount

\* C17: of the first MAX_TABLES_SCANNED tables locate_result_table returns
\* one whose header holds the most keywords, the earliest of those; that is
\* the first table when no header holds a keyword.
C17_BestHeaderEarliest ==
    tpc = "done" /\ tables # <<>> =>
        LET n == Min(MAX_TABLES_SCANNED, Len(tables))
        IN  /\ best \in 1..n
            /\ \A j \in 1..n :
                 /\ HeadScore(tables[j]) <= HeadScore(tables[best])
                 /\ j < best => HeadScore(tables[j]) < HeadScore(tables[best])
            /\ (\A j \in 1..n : HeadScore(tables[j]) = 0) => best = 1

\* two tables tie for the best header among the scanned ones, and a table
\* past the scan has a better one
C17_Witness ==
    /\ tpc = "done"
    /\ Len(tables) > MAX_TABLES_SCANNED
    /\ HeadScore(tables[Len(tables)]) > HeadScore(tables[best])
    /\ \E j \in (best + 1)..MAX_TABLES_SCANNED :
         HeadScore(tables[j]) = HeadScore(tables[best])

====
